---- MODULE Spec2Model ----
(***************************************************************************)
(* Model of the Compass component (direction/degrees state, the bearing    *)
(* calculation, the sector classification and the update effect) and of    *)
(* the banner rotation of the Hero component.                              *)
(*                                                                         *)
(* Numbers.  Coordinates are whole degrees.  Trigonometric values are      *)
(* fixed-point integers scaled by 10000 (SinTable holds sin of 0..90       *)
(* degrees).  Bearings are counted in tenths of a degree, so that the      *)
(* sector boundaries 22.5, 67.5, ... are representable: 225, 675, ...      *)
(* The fixed-point bearing is within one degree of the floating-point one  *)
(* except where the geometry is degenerate (a point at a pole, longitudes  *)
(* 180 or 360 degrees apart): there x and y are exactly 0 here, and        *)
(* rounding noise in floating point.                                       *)
(***************************************************************************)
EXTENDS Integers, Sequences, FiniteSets

VARIABLES
    \* Compass props and state
    busLocation, previousLocation, direction, degrees,
    compassPc,        \* "effect": the update effect is pending; "idle": flushed
    priorDirection,   \* history: the label shown before the last effect run
    \* one call of calculateBearing
    argStart, argEnd, retBearing,
    bearingPc,        \* "call": not yet called; "done": returned; "threw"
    \* one call of bearingToDirection
    argBearing, retDirection,
    classifyPc,       \* "call": not yet called; "done": returned
    \* Hero state
    bannerImages, autoRotate, rotationInterval, currentImageIndex,
    loadPc,           \* "pending": the homepage content promise is unresolved
    heroPc,           \* "effect": the banner rotate effect is pending
    timer             \* the interval installed by the banner rotate effect

vars == <<busLocation, previousLocation, direction, degrees, compassPc,
          priorDirection, argStart, argEnd, retBearing, bearingPc,
          argBearing, retDirection, classifyPc, bannerImages, autoRotate,
          rotationInterval, currentImageIndex, loadPc, heroPc, timer>>

compassVars == <<busLocation, previousLocation, direction, degrees, compassPc,
                 priorDirection>>
bearingVars == <<argStart, argEnd, retBearing, bearingPc>>
classifyVars == <<argBearing, retDirection, classifyPc>>
heroVars == <<bannerImages, autoRotate, rotationInterval, currentImageIndex,
              loadPc, heroPc, timer>>

(***************************************************************************)
(* Bounds of the model.                                                    *)
(***************************************************************************)
\* fixes delivered to the component: lat in 0..MaxLat, lng in 0..MaxLng
MaxLat == 1
MaxLng == 1
\* arguments of a single calculateBearing call: -MaxCoord..MaxCoord degrees
\* around the origin, together with the edges of the valid range
MaxCoord == 1
\* longest banner list the content store returns
MaxImages == 3

(***************************************************************************)
(* Values.                                                                 *)
(***************************************************************************)
\* an absent fix (null); a present one is [lat |-> .., lng |-> ..]
Null == [null |-> TRUE]
\* the value of an array read outside the array
Undefined == "undefined"

Abs(n) == IF n >= 0 THEN n ELSE -n

\* JavaScript's % : the remainder takes the sign of the dividend
JsRem(a, n) == IF a >= 0 THEN a % n ELSE -((-a) % n)

\* fixed-point product of two values scaled by 10000, rounded to nearest
FxMul(a, b) ==
    LET p == a * b
    IN  IF p >= 0 THEN (p + 5000) \div 10000 ELSE -((-p + 5000) \div 10000)

\* sin of 0..90 degrees, scaled by 10000
SinTable ==
    << 0, 175, 349, 523, 698, 872, 1045, 1219, 1392, 1564,
       1736, 1908, 2079, 2250, 2419, 2588, 2756, 2924, 3090, 3256,
       3420, 3584, 3746, 3907, 4067, 4226, 4384, 4540, 4695, 4848,
       5000, 5150, 5299, 5446, 5592, 5736, 5878, 6018, 6157, 6293,
       6428, 6561, 6691, 6820, 6947, 7071, 7193, 7314, 7431, 7547,
       7660, 7771, 7880, 7986, 8090, 8192, 8290, 8387, 8480, 8572,
       8660, 8746, 8829, 8910, 8988, 9063, 9135, 9205, 9272, 9336,
       9397, 9455, 9511, 9563, 9613, 9659, 9703, 9744, 9781, 9816,
       9848, 9877, 9903, 9925, 9945, 9962, 9976, 9986, 9994, 9998,
       10000 >>

\* Math.sin((d * Math.PI) / 180) for a whole number of degrees d
MathSin(d) ==
    LET r == d % 360
    IN  IF r <= 90 THEN SinTable[r + 1]
        ELSE IF r <= 180 THEN SinTable[180 - r + 1]
        ELSE IF r <= 270 THEN -SinTable[r - 180 + 1]
        ELSE -SinTable[360 - r + 1]

\* Math.cos((d * Math.PI) / 180) for a whole number of degrees d
MathCos(d) == MathSin(d + 90)

\* the angle of the direction (ax, ay), ax >= 0, ay >= 0, not both 0, in
\* whole degrees 0..90, rounded to nearest: the number of half-way marks
\* (k - 1/2) degrees, k in 1..90, at or below the direction
AcuteDegrees(ay, ax) ==
    Cardinality({k \in 1..90 :
        ay * (MathCos(k) + MathCos(k - 1)) >= ax * (MathSin(k) + MathSin(k - 1))})

\* Math.atan2(y, x) * (180 / Math.PI), in whole degrees -180..180
MathAtan2Degrees(y, x) ==
    IF x = 0 /\ y = 0 THEN 0
    ELSE LET q == AcuteDegrees(Abs(y), Abs(x))
         IN  IF x >= 0 THEN (IF y >= 0 THEN q ELSE -q)
             ELSE (IF y >= 0 THEN 180 - q ELSE q - 180)

(***************************************************************************)
(* Compass: calculateBearing.  The result is in tenths of a degree.        *)
(***************************************************************************)
calculateBearingNullAsOrigin(start, end) ==
    LET s == IF start = Null THEN [lat |-> 0, lng |-> 0] ELSE start
        e == IF end = Null THEN [lat |-> 0, lng |-> 0] ELSE end
        dLng == e.lng - s.lng
        y == FxMul(MathSin(dLng), MathCos(e.lat))
        x == FxMul(MathCos(s.lat), MathSin(e.lat))
             - FxMul(FxMul(MathSin(s.lat), MathCos(e.lat)), MathCos(dLng))
    IN  JsRem(MathAtan2Degrees(y, x) * 10 + 3600, 3600)

calculateBearingNoNormalize(start, end) ==
    IF start = Null \/ end = Null
       \/ (start.lat = end.lat /\ start.lng = end.lng)
    THEN 0
    ELSE LET dLng == end.lng - start.lng
             y == FxMul(MathSin(dLng), MathCos(end.lat))
             x == FxMul(MathCos(start.lat), MathSin(end.lat))
                  - FxMul(FxMul(MathSin(start.lat), MathCos(end.lat)),
                          MathCos(dLng))
         IN  MathAtan2Degrees(y, x) * 10

calculateBearingSwapped(start, end) ==
    IF start = Null \/ end = Null
       \/ (start.lat = end.lat /\ start.lng = end.lng)
    THEN 0
    ELSE LET dLng == end.lng - start.lng
             y == FxMul(MathSin(dLng), MathCos(end.lat))
             x == FxMul(MathCos(start.lat), MathSin(end.lat))
                  - FxMul(FxMul(MathSin(start.lat), MathCos(end.lat)),
                          MathCos(dLng))
         IN  JsRem(MathAtan2Degrees(x, y) * 10 + 3600, 3600)

calculateBearing(start, end) ==
    IF start = Null \/ end = Null
       \/ (start.lat = end.lat /\ start.lng = end.lng)
    THEN 0
    ELSE LET dLng == end.lng - start.lng
             y == FxMul(MathSin(dLng), MathCos(end.lat))
             x == FxMul(MathCos(start.lat), MathSin(end.lat))
                  - FxMul(FxMul(MathSin(start.lat), MathCos(end.lat)),
                          MathCos(dLng))
         IN  JsRem(MathAtan2Degrees(y, x) * 10 + 3600, 3600)

(***************************************************************************)
(* Compass: bearingToDirection.  The bearing is in tenths of a degree.     *)
(***************************************************************************)
directions == <<"N", "NE", "E", "SE", "S", "SW", "W", "NW">>

\* Math.round(bearing / 45): the nearest integer, a tie going up
MathRoundDiv45(bearing) == (bearing + 225) \div 450

\* directions[index]: undefined outside the array
DirectionAt(index) ==
    IF index \in 0..7 THEN directions[index + 1] ELSE Undefined

bearingToDirectionTiesDown(bearing) ==
    DirectionAt(JsRem((bearing + 224) \div 450, 8))

bearingToDirectionFloor(bearing) ==
    DirectionAt(JsRem(bearing \div 450, 8))

directionIndex(bearing) == JsRem(MathRoundDiv45(bearing), 8)

bearingToDirection(bearing) == DirectionAt(directionIndex(bearing))

(***************************************************************************)
(* Compass: the component, its props and its update effect.                *)
(***************************************************************************)
Fixes == [lat : 0..MaxLat, lng : 0..MaxLng]
FixOrNull == Fixes \cup {Null}

Present(fix) == fix /= Null

\* The parent renders the component with a changed fix pair.  A pending
\* effect is flushed before the next render, and the effect is scheduled
\* only when one of its dependencies changed.
Deliver ==
    /\ compassPc = "idle"
    /\ \E b \in FixOrNull, p \in FixOrNull :
          /\ <<b, p>> /= <<busLocation, previousLocation>>
          /\ busLocation' = b
          /\ previousLocation' = p
    /\ compassPc' = "effect"
    /\ UNCHANGED <<direction, degrees, priorDirection>>
    /\ UNCHANGED <<bearingVars, classifyVars, heroVars>>

RunEffectDegreesOnly ==
    /\ compassPc = "effect"
    /\ IF Present(busLocation) /\ Present(previousLocation)
       THEN /\ degrees' = calculateBearing(previousLocation, busLocation)
            /\ UNCHANGED direction
       ELSE UNCHANGED <<degrees, direction>>
    /\ priorDirection' = direction
    /\ compassPc' = "idle"
    /\ UNCHANGED <<busLocation, previousLocation>>
    /\ UNCHANGED <<bearingVars, classifyVars, heroVars>>

RunEffectArgsSwapped ==
    /\ compassPc = "effect"
    /\ IF Present(busLocation) /\ Present(previousLocation)
       THEN LET bearing == calculateBearing(busLocation, previousLocation)
            IN  /\ degrees' = bearing
                /\ direction' = bearingToDirection(bearing)
       ELSE UNCHANGED <<degrees, direction>>
    /\ priorDirection' = direction
    /\ compassPc' = "idle"
    /\ UNCHANGED <<busLocation, previousLocation>>
    /\ UNCHANGED <<bearingVars, classifyVars, heroVars>>

RunEffectResetOnNull ==
    /\ compassPc = "effect"
    /\ IF Present(busLocation) /\ Present(previousLocation)
       THEN LET bearing == calculateBearing(previousLocation, busLocation)
            IN  /\ degrees' = bearing
                /\ direction' = bearingToDirection(bearing)
       ELSE /\ degrees' = 0
            /\ direction' = "N"
    /\ priorDirection' = direction
    /\ compassPc' = "idle"
    /\ UNCHANGED <<busLocation, previousLocation>>
    /\ UNCHANGED <<bearingVars, classifyVars, heroVars>>

RunEffectSkipStationary ==
    /\ compassPc = "effect"
    /\ IF Present(busLocation) /\ Present(previousLocation)
          /\ busLocation /= previousLocation
       THEN LET bearing == calculateBearing(previousLocation, busLocation)
            IN  /\ degrees' = bearing
                /\ direction' = bearingToDirection(bearing)
       ELSE UNCHANGED <<degrees, direction>>
    /\ priorDirection' = direction
    /\ compassPc' = "idle"
    /\ UNCHANGED <<busLocation, previousLocation>>
    /\ UNCHANGED <<bearingVars, classifyVars, heroVars>>

\* The update effect.  Its two setState calls are batched: the component
\* renders once after the effect, with both values replaced.
RunEffect ==
    /\ compassPc = "effect"
    /\ IF Present(busLocation) /\ Present(previousLocation)
       THEN LET bearing == calculateBearing(previousLocation, busLocation)
            IN  /\ degrees' = bearing
                /\ direction' = bearingToDirection(bearing)
       ELSE UNCHANGED <<degrees, direction>>
    /\ priorDirection' = direction
    /\ compassPc' = "idle"
    /\ UNCHANGED <<busLocation, previousLocation>>
    /\ UNCHANGED <<bearingVars, classifyVars, heroVars>>

(***************************************************************************)
(* One call of calculateBearing, and one of bearingToDirection.            *)
(***************************************************************************)
WideLats == (-MaxCoord..MaxCoord) \cup {-90, -45, 45, 90}
WideLngs == (-MaxCoord..MaxCoord) \cup {-180, -90, 90, 180}
WideFixOrNull == [lat : WideLats, lng : WideLngs] \cup {Null}

\* a property of a null argument is read (a TypeError): the comparison of
\* line 16 and the reads of lines 20-23 come after the two null tests
calculateBearingThrows(start, end) ==
    LET absent == start = Null \/ end = Null
    IN  ~absent /\ (start = Null \/ end = Null)

CallBearing ==
    /\ bearingPc = "call"
    /\ IF calculateBearingThrows(argStart, argEnd)
       THEN /\ bearingPc' = "threw"
            /\ UNCHANGED retBearing
       ELSE /\ bearingPc' = "done"
            /\ retBearing' = calculateBearing(argStart, argEnd)
    /\ UNCHANGED <<argStart, argEnd>>
    /\ UNCHANGED <<compassVars, classifyVars, heroVars>>

CallClassify ==
    /\ classifyPc = "call"
    /\ retDirection' = bearingToDirection(argBearing)
    /\ classifyPc' = "done"
    /\ UNCHANGED argBearing
    /\ UNCHANGED <<compassVars, bearingVars, heroVars>>

(***************************************************************************)
(* Hero: the homepage content load and the banner rotation.                *)
(***************************************************************************)
Images == {"a.jpg", "b.jpg"}

BannerLists == UNION {[1..n -> Images] : n \in 0..MaxImages}

\* the fields of defaultData the banner reads
defaultData == [bannerImages |-> <<>>, autoRotate |-> TRUE, rotationInterval |-> 5]

\* what the content store resolves to: nothing, or a row whose bannerImages
\* may or may not be an array and whose autoRotate may be left out
NoData == [null |-> TRUE]
HomepageRows ==
    [bannerImagesIsArray : BOOLEAN, bannerImages : BannerLists,
     autoRotateSet : BOOLEAN, autoRotate : BOOLEAN,
     rotationInterval : {0, 1, 5}]

NoTimer == [active |-> FALSE, length |-> 0, delay |-> 0]

Max(a, b) == IF a >= b THEN a ELSE b

\* The promise of getSupabaseData("royal-academy-homepage") resolves, once,
\* after the mount effects have run.  The banner rotate effect is scheduled
\* when one of its dependencies changed; an array from the store is a new
\* array.
LoadResolve ==
    /\ loadPc = "pending"
    /\ heroPc = "idle"
    /\ loadPc' = "resolved"
    /\ \E data \in HomepageRows \cup {NoData} :
          IF data = NoData
          THEN UNCHANGED <<bannerImages, autoRotate, rotationInterval, heroPc>>
          ELSE /\ bannerImages' = IF data.bannerImagesIsArray
                                  THEN data.bannerImages
                                  ELSE defaultData.bannerImages
               /\ autoRotate' = IF data.autoRotateSet
                                THEN data.autoRotate
                                ELSE defaultData.autoRotate
               /\ rotationInterval' = IF data.rotationInterval /= 0
                                      THEN data.rotationInterval
                                      ELSE defaultData.rotationInterval
               /\ heroPc' = IF \/ data.bannerImagesIsArray
                               \/ autoRotate' /= autoRotate
                               \/ rotationInterval' /= rotationInterval
                            THEN "effect"
                            ELSE "idle"
    /\ UNCHANGED <<currentImageIndex, timer>>
    /\ UNCHANGED <<compassVars, bearingVars, classifyVars>>

\* The banner rotate effect: the previous interval is cleared, and a new one
\* is set whose callback closes over the list of this render.
RotateEffect ==
    /\ heroPc = "effect"
    /\ timer' = IF autoRotate /\ Len(bannerImages) > 1
                THEN [active |-> TRUE, length |-> Len(bannerImages),
                      delay |-> Max(2000, rotationInterval * 1000)]
                ELSE NoTimer
    /\ heroPc' = "idle"
    /\ UNCHANGED <<bannerImages, autoRotate, rotationInterval,
                   currentImageIndex, loadPc>>
    /\ UNCHANGED <<compassVars, bearingVars, classifyVars>>

TickNoWrap ==
    /\ timer.active
    /\ currentImageIndex' = currentImageIndex + 1
    /\ UNCHANGED <<bannerImages, autoRotate, rotationInterval, loadPc,
                   heroPc, timer>>
    /\ UNCHANGED <<compassVars, bearingVars, classifyVars>>

\* The interval fires: setCurrentImageIndex((p) => (p + 1) % length)
Tick ==
    /\ timer.active
    /\ currentImageIndex' = JsRem(currentImageIndex + 1, timer.length)
    /\ UNCHANGED <<bannerImages, autoRotate, rotationInterval, loadPc,
                   heroPc, timer>>
    /\ UNCHANGED <<compassVars, bearingVars, classifyVars>>

\* the banner shown: bannerImages[currentImageIndex], or the fallback
currentBanner ==
    IF Len(bannerImages) /= 0
    THEN IF currentImageIndex + 1 \in 1..Len(bannerImages)
         THEN bannerImages[currentImageIndex + 1]
         ELSE Undefined
    ELSE "/placeholder.svg"

(***************************************************************************)
(* Specifications.  Each one runs one component; the others stay as        *)
(* constructed.                                                            *)
(***************************************************************************)
\* The first render of Compass: the props the parent passes, the useState
\* defaults, and the update effect pending.
InitCompass ==
    /\ busLocation \in FixOrNull
    /\ previousLocation \in FixOrNull
    /\ direction = "N"
    /\ degrees = 0
    /\ compassPc = "effect"
    /\ priorDirection = "N"
    /\ argStart = Null /\ argEnd = Null /\ retBearing = 0 /\ bearingPc = "done"
    /\ argBearing = 0 /\ retDirection = "N" /\ classifyPc = "done"
    /\ bannerImages = defaultData.bannerImages
    /\ autoRotate = defaultData.autoRotate
    /\ rotationInterval = defaultData.rotationInterval
    /\ currentImageIndex = 0
    /\ loadPc = "pending" /\ heroPc = "effect" /\ timer = NoTimer

\* A call of calculateBearing about to be made.
InitBearing ==
    /\ argStart \in WideFixOrNull
    /\ argEnd \in WideFixOrNull
    /\ retBearing = -1
    /\ bearingPc = "call"
    /\ busLocation = Null /\ previousLocation = Null
    /\ direction = "N" /\ degrees = 0
    /\ compassPc = "idle" /\ priorDirection = "N"
    /\ argBearing = 0 /\ retDirection = "N" /\ classifyPc = "done"
    /\ bannerImages = defaultData.bannerImages
    /\ autoRotate = defaultData.autoRotate
    /\ rotationInterval = defaultData.rotationInterval
    /\ currentImageIndex = 0
    /\ loadPc = "pending" /\ heroPc = "effect" /\ timer = NoTimer

\* A call of bearingToDirection about to be made, on a bearing of 0 to 360
\* degrees in steps of a tenth.
InitClassify ==
    /\ argBearing \in 0..3600
    /\ retDirection = Undefined
    /\ classifyPc = "call"
    /\ busLocation = Null /\ previousLocation = Null
    /\ direction = "N" /\ degrees = 0
    /\ compassPc = "idle" /\ priorDirection = "N"
    /\ argStart = Null /\ argEnd = Null /\ retBearing = 0 /\ bearingPc = "done"
    /\ bannerImages = defaultData.bannerImages
    /\ autoRotate = defaultData.autoRotate
    /\ rotationInterval = defaultData.rotationInterval
    /\ currentImageIndex = 0
    /\ loadPc = "pending" /\ heroPc = "effect" /\ timer = NoTimer

\* The first render of Hero: the useState defaults, the content promise
\* unresolved, the banner rotate effect pending and no interval set.
InitHero ==
    /\ bannerImages = defaultData.bannerImages
    /\ autoRotate = defaultData.autoRotate
    /\ rotationInterval = defaultData.rotationInterval
    /\ currentImageIndex = 0
    /\ loadPc = "pending"
    /\ heroPc = "effect"
    /\ timer = NoTimer
    /\ busLocation = Null /\ previousLocation = Null
    /\ direction = "N" /\ degrees = 0
    /\ compassPc = "idle" /\ priorDirection = "N"
    /\ argStart = Null /\ argEnd = Null /\ retBearing = 0 /\ bearingPc = "done"
    /\ argBearing = 0 /\ retDirection = "N" /\ classifyPc = "done"

NextCompass == Deliver \/ RunEffect
NextBearing == CallBearing
NextClassify == CallClassify
NextHero == LoadResolve \/ RotateEffect \/ Tick

SpecCompass == InitCompass /\ [][NextCompass]_vars
SpecBearing == InitBearing /\ [][NextBearing]_vars
SpecClassify == InitClassify /\ [][NextClassify]_vars
SpecHero == InitHero /\ [][NextHero]_vars

(***************************************************************************)
(* Properties.                                                             *)
(***************************************************************************)
SamePoint(a, b) == a.lat = b.lat /\ a.lng = b.lng

BothPresent == Present(busLocation) /\ Present(previousLocation)

\* C1: in every state a reader can observe, the label shown is the sector of
\* the degrees shown: the two are never from different updates.
C1_LabelMatchesDegrees == direction = bearingToDirection(degrees)

\* an update has replaced the initial {0, N} by another heading
C1_Witness ==
    /\ compassPc = "idle"
    /\ degrees /= 0
    /\ direction /= "N"
    /\ priorDirection /= direction

\* C2: once the effect of an update with both fixes present has run, the
\* state is the bearing of that update's own pair, previous fix to current
\* fix, and the label of that bearing; never that of an earlier pair.
C2_StateIsOfCurrentPair ==
    (compassPc = "idle" /\ BothPresent)
        => /\ degrees = calculateBearing(previousLocation, busLocation)
           /\ direction =
                  bearingToDirection(calculateBearing(previousLocation, busLocation))

\* a recomputation has replaced an earlier heading other than the default
C2_Witness ==
    /\ compassPc = "idle"
    /\ BothPresent
    /\ ~SamePoint(previousLocation, busLocation)
    /\ priorDirection /= "N"
    /\ priorDirection /= direction

\* C3: a step that ends with the previous or the current fix absent leaves
\* degrees and label as they were: the last published heading, or the
\* initial {0, N}, is retained.
C3_NullFixRetainsState ==
    [][(busLocation' = Null \/ previousLocation' = Null)
          => (degrees' = degrees /\ direction' = direction)]_vars

\* the effect of an update with an absent fix has run and an earlier heading
\* is still shown
C3_Witness ==
    /\ compassPc = "idle"
    /\ ~BothPresent
    /\ degrees /= 0
    /\ direction /= "N"

\* C4: calculateBearing returns exactly 0, and does not throw, when start is
\* absent, end is absent, or both are the same point; and 0 is labelled N.
C4_DegenerateIsZero ==
    /\ (/\ bearingPc /= "call"
        /\ \/ argStart = Null
           \/ argEnd = Null
           \/ SamePoint(argStart, argEnd))
          => (bearingPc = "done" /\ retBearing = 0)
    /\ bearingToDirection(0) = "N"

\* the call returned for an absent start and a present end away from the
\* origin
C4_Witness ==
    /\ bearingPc = "done"
    /\ argStart = Null
    /\ argEnd = [lat |-> 0, lng |-> 1]
    /\ retBearing = 0

\* C5: the bearing returned for any pair of valid points is at least 0 and
\* less than 360 degrees.
C5_BearingInRange ==
    bearingPc = "done" => (retBearing >= 0 /\ retBearing < 3600)

\* a westward bearing, whose atan2 is negative, was returned normalised
C5_Witness ==
    /\ bearingPc = "done"
    /\ Present(argStart) /\ Present(argEnd)
    /\ argEnd.lng < argStart.lng
    /\ retBearing > 1800

\* sector k of the 8-way partition: 45 degrees centred on 45k degrees,
\* sector 0 being [337.5, 360) together with [0, 22.5)
InSector(k, bearing) ==
    IF k = 0
    THEN bearing \in 3375..3599 \/ bearing \in 0..224
    ELSE bearing \in (450 * k - 225)..(450 * k + 224)

\* C6: for every bearing in [0, 360) the index is in 0..7 and the label
\* returned is the label of the one 45-degree sector, counted clockwise
\* from N, that holds the bearing.
C6_ClassifyIsThePartition ==
    (classifyPc = "done" /\ argBearing < 3600)
        => /\ directionIndex(argBearing) \in 0..7
           /\ retDirection \in {directions[i] : i \in 1..8}
           /\ \A k \in 0..7 :
                 (retDirection = directions[k + 1]) <=> InSector(k, argBearing)

\* a bearing just below 360 degrees was labelled N: the wraparound
C6_Witness ==
    /\ classifyPc = "done"
    /\ argBearing = 3599
    /\ retDirection = "N"

\* C7: a bearing exactly on the boundary 22.5 + 45k degrees gets the
\* clockwise-next label, the bearing a tenth below it still gets label k,
\* and 360 degrees is N.
C7_BoundaryGoesClockwise ==
    classifyPc = "done"
        => /\ \A k \in 0..7 :
                 /\ argBearing = 225 + 450 * k
                       => retDirection = directions[((k + 1) % 8) + 1]
                 /\ argBearing = 224 + 450 * k
                       => retDirection = directions[k + 1]
           /\ argBearing = 3600 => retDirection = "N"

\* 22.5 degrees was labelled NE
C7_Witness ==
    /\ classifyPc = "done"
    /\ argBearing = 225
    /\ retDirection = "NE"

\* C8: from (0, 0) the bearing to (0, 1) is 90 degrees, labelled E, and the
\* bearing to (1, 0) is 0 degrees, labelled N.
C8_Fixtures ==
    (bearingPc = "done" /\ argStart = [lat |-> 0, lng |-> 0])
        => /\ argEnd = [lat |-> 0, lng |-> 1]
                => (retBearing = 900 /\ bearingToDirection(retBearing) = "E")
           /\ argEnd = [lat |-> 1, lng |-> 0]
                => (retBearing = 0 /\ bearingToDirection(retBearing) = "N")

\* the due-east fixture was computed
C8_Witness ==
    /\ bearingPc = "done"
    /\ argStart = [lat |-> 0, lng |-> 0]
    /\ argEnd = [lat |-> 0, lng |-> 1]
    /\ retBearing = 900

\* C9: once the effect of an update whose two fixes are present and the
\* same point has run, the state is {0, N}, whatever was shown before.
C9_StationaryShowsNorth ==
    (compassPc = "idle" /\ BothPresent /\ SamePoint(previousLocation, busLocation))
        => (degrees = 0 /\ direction = "N")

\* a stationary update has overwritten a heading other than N
C9_Witness ==
    /\ compassPc = "idle"
    /\ BothPresent
    /\ SamePoint(previousLocation, busLocation)
    /\ degrees = 0
    /\ priorDirection /= "N"

\* C10: currentImageIndex is an index of bannerImages whenever the list is
\* not empty, and an interval exists only while autoRotate is true and the
\* list has more than one element, its callback using the list's length.
C10_IndexInBannerImages ==
    /\ currentImageIndex >= 0
    /\ Len(bannerImages) > 0 => currentImageIndex < Len(bannerImages)
    /\ currentBanner /= Undefined
    /\ timer.active => /\ autoRotate
                       /\ Len(bannerImages) > 1
                       /\ timer.length = Len(bannerImages)

\* after the load, ticks have moved the banner to the last image
C10_Witness ==
    /\ loadPc = "resolved"
    /\ timer.active
    /\ Len(bannerImages) > 1
    /\ currentImageIndex = Len(bannerImages) - 1

====
